---- MODULE Spec2Model ----
(***************************************************************************)
(* Model of the stack reconciliation engine of the ET tool:                *)
(*   water_rights_visualizer/date_helpers.py      calendar helpers         *)
(*   water_rights_visualizer/variable_types.py    variable source registry *)
(*   water_rights_visualizer/generate_stack.py    sparse stack builder     *)
(*   water_rights_visualizer/interpolate_stack.py temporal interpolator    *)
(*                                                                         *)
(* Raster values are exact rationals [n, d, sun]: n/d, times the hours of  *)
(* sunlight of day-of-year `sun` when sun > 0.  NaN is 0/0 and +-Inf is    *)
(* +-1/0, as numpy's float division produces them.  float32 rounding is    *)
(* not modelled.  A raster is a sequence of NPix pixel values; a stack is  *)
(* a sequence of rasters, slot t of the code at position t + 1, and the    *)
(* empty sequence stands for Python's None.                                *)
(***************************************************************************)
EXTENDS Integers, Sequences, FiniteSets, TLC

\* ------------------------------------------------------------------ bounds
\* number of pixels (rows * cols) of every subset raster
NPix == 2
\* largest number of dates of the year handed to generate_stack
MaxDates == 2
\* longest pixel time series given to interpolate_stack on its own
MaxLen == 6

\* ------------------------------------------------------------ date_helpers
IsLeap(y) == (y % 4 = 0 /\ y % 100 # 0) \/ (y % 400 = 0)

\* calendar length of month m (datetime / relativedelta arithmetic)
MonthLen(y, m) ==
    IF m = 2 THEN (IF IsLeap(y) THEN 29 ELSE 28)
    ELSE IF m \in {4, 6, 9, 11} THEN 30 ELSE 31

RECURSIVE DaysBeforeMonth(_, _)
DaysBeforeMonth(y, m) ==
    IF m = 1 THEN 0 ELSE DaysBeforeMonth(y, m - 1) + MonthLen(y, m - 1)

\* date.timetuple().tm_yday: 1-based day of the year
tm_yday(y, m, d) == DaysBeforeMonth(y, m) + d

\* days between 2000-01-01 and January 1st of year y (date differences only)
RECURSIVE DaysBeforeYear(_)
DaysBeforeYear(y) ==
    IF y <= 2000 THEN 0
    ELSE DaysBeforeYear(y - 1) + (IF IsLeap(y - 1) THEN 366 ELSE 365)

toordinal(y, m, d) == DaysBeforeYear(y) + tm_yday(y, m, d)

\* a slice whose end index is the index of the last day of the month
get_one_month_slice_closed(y, m) ==
    <<tm_yday(y, m, 1) - 1, tm_yday(y, m, MonthLen(y, m)) - 1>>

get_one_month_slice(y, m) ==
    LET start_index == tm_yday(y, m, 1) - 1
        \* start + relativedelta(months=1) - relativedelta(days=1): last day of month m
        end_index   == tm_yday(y, m, MonthLen(y, m))
    IN  <<start_index, end_index>>

\* the slice taken as inclusive of its end
get_days_in_month_inclusive(y, m) ==
    LET s == get_one_month_slice(y, m) IN s[2] - s[1] + 1

get_days_in_month(y, m) ==
    LET s == get_one_month_slice(y, m) IN s[2] - s[1]

get_days_in_year(y) == (toordinal(y, 12, 31) - toordinal(y, 1, 1)) + 1

get_day_of_year(y, m, d) == toordinal(y, m, d) - toordinal(y, 1, 1)

\* ------------------------------------------------------------------ values
NaN == [n |-> 0, d |-> 0, sun |-> 0]

IsNaN(v) == v.n = 0 /\ v.d = 0

IsInf(v) == v.n # 0 /\ v.d = 0

Abs(i) == IF i < 0 THEN -i ELSE i

RECURSIVE GCD(_, _)
GCD(a, b) == IF b = 0 THEN a ELSE GCD(b, a % b)

Sign(i) == IF i < 0 THEN -1 ELSE IF i > 0 THEN 1 ELSE 0

\* the rational n/d in lowest terms, d > 0
Rat(n, d) ==
    LET g == GCD(Abs(n), Abs(d))
        s == Sign(d)
    IN  [n |-> (s * n) \div g, d |-> (s * d) \div g, sun |-> 0]

Num(i) == [n |-> i, d |-> 1, sun |-> 0]

\* numpy float division a / b
Div(a, b) ==
    IF IsNaN(a) \/ IsNaN(b) THEN NaN
    ELSE IF IsInf(a) THEN (IF IsInf(b) THEN NaN
                           ELSE [n |-> a.n * (IF b.n < 0 THEN -1 ELSE 1), d |-> 0, sun |-> 0])
    ELSE IF IsInf(b) THEN Num(0)
    ELSE IF b.n = 0 THEN (IF a.n = 0 THEN NaN ELSE [n |-> Sign(a.n), d |-> 0, sun |-> 0])
    ELSE [Rat(a.n * b.d, a.d * b.n) EXCEPT !.sun = a.sun]

\* a / k for a positive integer k
DivInt(a, k) == Div(a, Num(k))

Add(a, b) ==
    IF IsNaN(a) \/ IsNaN(b) THEN NaN
    ELSE IF IsInf(a) THEN (IF IsInf(b) /\ b.n # a.n THEN NaN ELSE a)
    ELSE IF IsInf(b) THEN b
    ELSE Rat(a.n * b.d + b.n * a.d, a.d * b.d)

\* a * hours_of_sunlight(day of year doy, 1-based): kept symbolic
TimesSunlight(a, doy) ==
    IF IsNaN(a) \/ IsInf(a) THEN a ELSE [a EXCEPT !.sun = doy]

\* ------------------------------------------------------ hours of sunlight
\* a * b for finite a and b
Times(a, b) ==
    IF IsNaN(a) \/ IsNaN(b) THEN NaN ELSE Rat(a.n * b.n, a.d * b.d)

Neg(a) == [a EXCEPT !.n = -a.n]

\* a >= k and a <= k for a finite a and an integer k
AtLeast(a, k) == a.n >= k * a.d
AtMost(a, k) == a.n <= k * a.d

\* math.degrees(math.acos(c)): 90 for c = 0; the angle of another cosine
\* strictly between -1 and 1 is not a rational of the model
AcosDeg(c) == IF c.n = 0 /\ c.d # 0 THEN Num(90) ELSE NaN

\* lines 91-124, the latitude and the solar declination of the day given by
\* their tangents: math.tan(latitude_rad) and math.tan(solar_dec_rad)
sha_deg_from_doy_lat(tan_solar_dec, tan_latitude) ==
    LET sunrise_cos == Neg(Times(tan_latitude, tan_solar_dec))
    IN  IF AtLeast(sunrise_cos, 1) THEN Num(0)
        ELSE IF AtMost(sunrise_cos, -1) THEN Num(180)
        ELSE AcosDeg(sunrise_cos)

\* the hours between sunrise and noon only
DaylightUntilNoon(sha_deg) == Times(Rat(1, 15), sha_deg)

\* lines 139-149: (2.0 / 15.0) * sha_deg
daylight_from_sha(sha_deg) == Times(Rat(2, 15), sha_deg)

\* lines 152-169
calculate_hours_of_sunlight(tan_latitude, tan_solar_dec) ==
    daylight_from_sha(sha_deg_from_doy_lat(tan_solar_dec, tan_latitude))

\* ---------------------------------------------------------- variable_types
\* one record of VARIABLE_TYPES (class VariableType); dates are <<year, month, day>>
VariableType(id, variable, monthly, daylight_corrected, start, end) ==
    [id |-> id, variable |-> variable, monthly |-> monthly,
     daylight_corrected |-> daylight_corrected, start |-> start, end |-> end]

\* date comparison a < b and a <= b
DateLT(a, b) ==
    \/ a[1] < b[1]
    \/ a[1] = b[1] /\ a[2] < b[2]
    \/ a[1] = b[1] /\ a[2] = b[2] /\ a[3] < b[3]

DateLE(a, b) == a = b \/ DateLT(a, b)

\* a range that is closed at its end
SourceCoversClosed(source, variable, date) ==
    /\ source.variable = variable
    /\ DateLE(source.start, date)
    /\ DateLE(date, source.end)

\* source.variable == variable and date >= source.start and date < source.end
SourceCovers(source, variable, date) ==
    /\ source.variable = variable
    /\ DateLE(source.start, date)
    /\ DateLT(date, source.end)

\* a scan that keeps the last source that covers the date
RECURSIVE ScanSourcesLast(_, _, _, _)
ScanSourcesLast(types, variable, date, i) ==
    IF i > Len(types) THEN 0
    ELSE LET later == ScanSourcesLast(types, variable, date, i + 1)
         IN  IF later # 0 THEN later
             ELSE IF SourceCovers(types[i], variable, date) THEN i ELSE 0

RECURSIVE ScanSources(_, _, _, _)
ScanSources(types, variable, date, i) ==
    IF i > Len(types) THEN 0
    ELSE IF SourceCovers(types[i], variable, date) THEN i
    ELSE ScanSources(types, variable, date, i + 1)

\* position in `types` of the source returned, 0 for None
get_available_variable_source_for_date(types, variable, date) ==
    ScanSources(types, variable, date, 1)

\* `source and source.monthly`
SourceMonthly(types, i) == i # 0 /\ types[i].monthly

\* the sources of every variable with start <= date < end, in declaration order
get_available_variables_for_date(types, date) ==
    SelectSeq(types, LAMBDA v : DateLE(v.start, date) /\ DateLT(date, v.end))

\* ---------------------------------------------------------------- S3_source
\* an entry of the file table that parser.parse cannot read
Unparsable == <<>>

\* every date some source covers is kept
KeepsCovered(types, date) == Len(get_available_variables_for_date(types, date)) > 0

\* S3Source.inventory, lines 74-83: does the date go into dates_available
KeepsDate(types, date) ==
    LET variables == get_available_variables_for_date(types, date)
    IN  /\ Len(variables) > 0
        /\ \/ date[3] = 1
           \/ \E k \in 1..Len(variables) : ~variables[k].monthly

\* S3Source.inventory, lines 68-89: the dates of the table that are kept, in
\* the order of the table, and their years
inventory(types, table) ==
    LET dates == SelectSeq(table, LAMBDA d : d # Unparsable /\ KeepsDate(types, d))
    IN  [years |-> {dates[k][1] : k \in 1..Len(dates)}, dates |-> dates]

\* --------------------------------------------------------- interpolate_stack
\* a threshold that lets two known values through
MinKnownTwo == 3 - 1

\* np.sum(known_indices) < 3: too few known values
MinKnown == 3

\* x[known_indices]: the known day indices (0-based), ascending
KnownDays(col) ==
    SelectSeq([k \in 1..Len(col) |-> k - 1], LAMBDA t : ~IsNaN(col[t + 1]))

\* the bisection of side="right" (kind="nearest-up"): a day half way between
\* two known days takes the later one
RECURSIVE SearchSortedRight(_, _, _, _)
SearchSortedRight(kd, t, lo, hi) ==
    IF lo >= hi THEN lo
    ELSE LET mid == (lo + hi) \div 2
         IN  IF kd[mid] + kd[mid + 1] <= 2 * t
             THEN SearchSortedRight(kd, t, mid + 1, hi)
             ELSE SearchSortedRight(kd, t, lo, mid)

\* interp1d(kind="nearest") evaluated at day t:
\* searchsorted(x_bds, t, side="left") with x_bds[i] = (x[i] + x[i+1]) / 2,
\* clipped to the last known index.  The bisection runs on positions lo..hi
\* of kd (1-based) and compares doubled values to stay in the integers.
RECURSIVE SearchSorted(_, _, _, _)
SearchSorted(kd, t, lo, hi) ==
    IF lo >= hi THEN lo
    ELSE LET mid == (lo + hi) \div 2
         IN  IF kd[mid] + kd[mid + 1] < 2 * t
             THEN SearchSorted(kd, t, mid + 1, hi)
             ELSE SearchSorted(kd, t, lo, mid)

\* a column in which a day half way between two known days takes the mean of
\* the two known values
InterpolateColumnMidpoint(col, days) ==
    LET kd == KnownDays(col)
    IN  IF Len(kd) < MinKnown
        THEN [t \in 1..days |-> NaN]
        ELSE [t \in 1..days |->
                 LET before == col[kd[SearchSorted(kd, t - 1, 1, Len(kd))] + 1]
                     after  == col[kd[SearchSortedRight(kd, t - 1, 1, Len(kd))] + 1]
                 IN  DivInt(Add(before, after), 2)]

\* one pixel column of filled_stack_2d
InterpolateColumn(col, days) ==
    LET kd == KnownDays(col)
    IN  IF Len(kd) < MinKnown
        THEN [t \in 1..days |-> NaN]
        ELSE [t \in 1..days |-> col[kd[SearchSorted(kd, t - 1, 1, Len(kd))] + 1]]

\* stack_2d[:, i]
Column(stack, i) == [t \in 1..Len(stack) |-> stack[t][i]]

\* the columns i .. pixels of filled_stack_2d
RECURSIVE FilledColumns(_, _, _)
FilledColumns(stack, pixels, i) ==
    IF i > pixels THEN <<>>
    ELSE <<InterpolateColumn(Column(stack, i), Len(stack))>>
         \o FilledColumns(stack, pixels, i + 1)

interpolate_stack(stack) ==
    LET pixels == Len(stack[1])
        filled == FilledColumns(stack, pixels, 1)
    IN  [t \in 1..Len(stack) |-> [i \in 1..pixels |-> filled[i][t]]]

\* the result written into the reshaped view of the caller's array
StackFilledInPlace(stack) == interpolate_stack(stack)

\* the caller's array after the call: the result is built in a fresh array
\* (np.full_like) and only that array is assigned to
StackAfterInterpolate(stack) == stack

\* ------------------------------------------------------------ generate_stack
VARIABLES
    year, daily_interpolation, use_stack,   \* arguments of generate_stack
    VARIABLE_TYPES,                         \* the module-level registry
    dates_available,                        \* candidate dates of the year, <<month, day>>, ascending
    stack_file,                             \* contents of stack_filename, <<>> when it does not exist
    pc, calls, ppt_month, cursor, ndates,   \* control: position in the call
    ET_sparse_stack, ESI_sparse_stack, PET_sparse_stack, affine,
    last,                                   \* what the latest date iteration did
    retrieved,                              \* the variables a subset was read for in this call
    ET_stack, PET_stack, error,             \* what the call returned or raised
    istack, iout,                           \* a stack given to interpolate_stack, and the results
    lookup,                                 \* a call of get_available_variable_source_for_date and its result
    S3_table, inventory_result,             \* the dates of the S3 file table, and what inventory returned
    ppt_scenario,                           \* the months whose PPT retrieval raises, where a scenario fixes them
    debug,                                  \* the debug flag of process_year
    remove_temporary_files,                 \* the flag of the S3Source
    filenames,                              \* self.filenames: the keys with a cached path
    temporary_directory,                    \* the state of each file of the temporary directory
    yielded,                                \* the file a caller of get_filename holds, <<>> when none
    uses,                                   \* number of uses of get_filename so far
    cache_files,                            \* the contents of the pass count cache files, by directory, year and month
    catalog_queries,                        \* number of searches of the catalog so far
    pass_count,                             \* what the latest count_landsat_passes_for_month returned
    count_calls,                            \* number of calls of count_landsat_passes_for_month so far
    sun_args,                               \* the day of year, latitude and declination of a call of calculate_hours_of_sunlight
    daylight_hours,                         \* what calculate_hours_of_sunlight returned, <<>> before the call
    month_slices                            \* the slices get_one_month_slice returned for the months 1, 2, ... of the year

vars == <<year, daily_interpolation, use_stack, VARIABLE_TYPES, dates_available,
          stack_file, pc, calls, ppt_month, cursor, ndates,
          ET_sparse_stack, ESI_sparse_stack, PET_sparse_stack, affine,
          last, retrieved, ET_stack, PET_stack, error, istack, iout,
          lookup, S3_table, inventory_result, ppt_scenario,
          debug,
          remove_temporary_files,
          filenames,
          temporary_directory,
          yielded,
          uses,
          cache_files,
          catalog_queries,
          pass_count,
          count_calls,
          sun_args,
          daylight_hours,
          month_slices>>

Pixels == 1..NPix

Uniform(v) == [p \in Pixels |-> v]

\* a raster known in its first pixel only
Partial(v) == [p \in Pixels |-> IF p = 1 THEN v ELSE NaN]

\* a stack that starts at zero
generate_zero_stack(total_date_steps) ==
    [t \in 1..total_date_steps |-> [p \in 1..NPix |-> [n |-> 0, d |-> 1, sun |-> 0]]]

generate_sparse_stack(total_date_steps) ==
    [t \in 1..total_date_steps |-> Uniform(NaN)]

\* the subset written over the whole image
Overwrite(image, subset) == subset

\* np.where(np.isnan(image), subset, image)
WhereNaN(image, subset) ==
    [p \in Pixels |-> IF IsNaN(image[p]) THEN subset[p] ELSE image[p]]

RasterDivInt(raster, k) == [p \in Pixels |-> DivInt(raster[p], k)]

\* stack[t, :, :] = raster for an index t inside the stack
SetSlot(stack, t, raster) == [stack EXCEPT ![t + 1] = raster]

\* stack[a:b, :, :] = image(t): numpy clips the slice to the stack
SetSlice(stack, a, b, image(_)) ==
    [k \in 1..Len(stack) |-> IF a <= k - 1 /\ k - 1 < b THEN image(k - 1) ELSE stack[k]]

\* stack[t] raises IndexError for t outside the stack
IndexInStack(stack, t) == 0 <= t /\ t < Len(stack)

Failures == {"FileUnavailable", "BlankOutput", "Exception"}

Failed(kind) == [kind |-> kind, raster |-> <<>>]

Retrieved(raster) == [kind |-> "ok", raster |-> raster]

\* a time dimension of one slot per day in both modes
TimeStepsDays(y, daily) == get_days_in_year(y)

\* days_in_year = get_days_in_year(year) if daily_interpolation else 12
TimeSteps(y, daily) == IF daily THEN get_days_in_year(y) ELSE 12

\* hours of sunlight taken for the middle day of the month in every slot
SunlightMiddleDay(y, month, day_of_year, current_day) ==
    tm_yday(y, month, get_days_in_month(y, month) \div 2)

\* lines 252-253: the day of year whose hours of sunlight scale the slot
\* current_day, datetime(year, month, current_day - day_of_year + 1)
SunlightDay(y, month, day_of_year, current_day) ==
    tm_yday(y, month, current_day - day_of_year + 1)

\* the PET branch of one date: lines 206-265.  status "ok" means the try block
\* completed; "nosource" and "failed" (the retrieval raised) and "IndexError"
\* (the write raised) are the exceptions that ended it.
PETBlock(PET, y, daily, types, md, petOut) ==
    LET month      == md[1]
        day        == md[2]
        pet_source == get_available_variable_source_for_date(types, "PET", <<y, month, day>>)
    IN  IF pet_source = 0
        THEN [subset |-> <<>>, stack |-> PET, status |-> "nosource", requested |-> FALSE]
        ELSE IF petOut.kind # "ok"
        THEN [subset |-> <<>>, stack |-> PET, status |-> "failed", requested |-> TRUE]
        ELSE
        LET PET_subset    == petOut.raster
            stack1        == IF PET = <<>> THEN generate_sparse_stack(TimeSteps(y, daily)) ELSE PET
            source        == types[pet_source]
            slice         == get_one_month_slice(y, month)
            days_in_month == get_days_in_month(y, month)
            middle        == tm_yday(y, month, days_in_month \div 2)
            doy           == get_day_of_year(y, month, day)
            daily_pet_avg == RasterDivInt(PET_subset, days_in_month)
            corrected(t)  == [p \in Pixels |->
                                TimesSunlight(DivInt(daily_pet_avg[p], 24),
                                              SunlightDay(y, month, slice[1], t))]
            flat(t)       == daily_pet_avg
        IN  IF ~daily /\ source.monthly
            THEN [subset |-> PET_subset, status |-> "ok", requested |-> TRUE,
                  stack |-> SetSlot(stack1, month - 1,
                               [p \in Pixels |-> TimesSunlight(DivInt(PET_subset[p], 24), middle)])]
            ELSE IF daily /\ source.monthly
            THEN [subset |-> PET_subset, status |-> "ok", requested |-> TRUE,
                  stack |-> IF ~source.daylight_corrected
                            THEN SetSlice(stack1, slice[1], slice[2], corrected)
                            ELSE SetSlice(stack1, slice[1], slice[2], flat)]
            ELSE IF IndexInStack(stack1, doy)
            THEN [subset |-> PET_subset, status |-> "ok", requested |-> TRUE,
                  stack |-> SetSlot(stack1, doy, WhereNaN(stack1[doy + 1], PET_subset))]
            ELSE [subset |-> PET_subset, status |-> "IndexError", requested |-> TRUE,
                  stack |-> stack1]

\* an ESI retrieval outside the except clause
ESIAlwaysAttempted(pet_status) == TRUE

\* ESI is retrieved in the except clause of the PET try block: lines 267-290
ESIAttempted(pet_status) == pet_status # "ok"

\* the time slot the ET observation of a date is written to in daily mode:
\* day_of_year of line 302, used at lines 306-307
ETSlot(y, month, day) == get_one_month_slice(y, month)[1]

\* lines 296-318: the ET branch of one date, never raises
ETBlock(ET, y, daily, types, md, ET_subset) ==
    LET month         == md[1]
        day           == md[2]
        stack1        == IF ET = <<>> THEN generate_sparse_stack(TimeSteps(y, daily)) ELSE ET
        slice         == get_one_month_slice(y, month)
        days_in_month == get_days_in_month(y, month)
        day_of_year   == ETSlot(y, month, day)
        stack2        == IF daily
                         THEN SetSlot(stack1, day_of_year, WhereNaN(stack1[day_of_year + 1], ET_subset))
                         ELSE SetSlot(stack1, month - 1, ET_subset)
        et_source     == get_available_variable_source_for_date(types, "ET", <<y, month, day>>)
        average(t)    == RasterDivInt(ET_subset, days_in_month)
    IN  IF SourceMonthly(types, et_source)
        THEN IF ~daily
             THEN SetSlot(stack2, month - 1, ET_subset)
             ELSE SetSlice(stack2, slice[1], slice[2], average)
        ELSE stack2

\* a fallback decided for each date: ESI is written whenever the PET of the
\* date is missing
ESIWrittenPerDate(PET_subset, PET, ESI_subset) ==
    PET_subset = <<>> /\ ESI_subset # <<>>

\* `not PET_subset and PET_sparse_stack is None and ESI_subset`, line 320;
\* a retrieved subset is a raster object (it has .geometry), true where the
\* code tests it, and None is false
ESIWritten(PET_subset, PET, ESI_subset) ==
    PET_subset = <<>> /\ PET = <<>> /\ ESI_subset # <<>>

\* lines 299-300 and 320-326: the ESI branch of one date
ESIBlock(ESI, PET_subset, PET, y, daily, types, md, ESI_subset) ==
    LET month         == md[1]
        day           == md[2]
        stack1        == IF ESI = <<>> THEN generate_sparse_stack(TimeSteps(y, daily)) ELSE ESI
        slice         == get_one_month_slice(y, month)
        days_in_month == get_days_in_month(y, month)
        day_of_year   == slice[1]
        source        == get_available_variable_source_for_date(types, "ESI", <<y, month, day>>)
        average(t)    == RasterDivInt(ESI_subset, days_in_month)
    IN  IF ~ESIWritten(PET_subset, PET, ESI_subset)
        THEN [stack |-> stack1, status |-> "ok"]
        ELSE IF ~IndexInStack(stack1, day_of_year)
        THEN [stack |-> stack1, status |-> "IndexError"]
        ELSE LET stack2 == SetSlot(stack1, day_of_year, WhereNaN(stack1[day_of_year + 1], ESI_subset))
             IN  [status |-> "ok",
                  stack  |-> IF SourceMonthly(types, source)
                             THEN SetSlice(stack2, slice[1], slice[2], average)
                             ELSE stack2]

\* lines 164-173: the except clauses around the ET retrieval all `continue`
ETHandled(kind) == kind \in {"BlankOutput", "FileUnavailable", "Exception"}

\* lines 175-198: in monthly mode ET_MIN, ET_MAX and COUNT are retrieved inside
\* try / except Exception; the error of a failed retrieval that leaves the block
UncertaintyBlock(daily, uncOut) ==
    IF daily \/ uncOut = "ok" \/ uncOut \in {"FileUnavailable", "BlankOutput", "Exception"}
    THEN "" ELSE uncOut

\* a loop body that goes on after a failed ET retrieval and allocates the stacks
ETFailedFallThrough(ET, PET, ESI, aff, y, daily, md, kind) ==
    [ET  |-> IF ET = <<>> THEN generate_sparse_stack(TimeSteps(y, daily)) ELSE ET,
     PET |-> PET,
     ESI |-> IF ESI = <<>> THEN generate_sparse_stack(TimeSteps(y, daily)) ELSE ESI,
     affine |-> aff, got |-> {}, error |-> "",
     log |-> [date |-> md, et |-> "failed", ET_subset |-> <<>>, pet |-> "skipped",
              esi |-> "skipped", requests |-> <<"ET">>]]

\* lines 151-173: the ET retrieval raised; the handler logs and continues
\* with the next date, nothing is allocated or written
ETFailed(ET, PET, ESI, aff, y, daily, md, kind) ==
    [ET |-> ET, PET |-> PET, ESI |-> ESI, affine |-> aff, got |-> {},
     error |-> IF ETHandled(kind) THEN "" ELSE kind,
     log |-> [date |-> md, et |-> "failed", ET_subset |-> <<>>, pet |-> "skipped",
              esi |-> "skipped", requests |-> <<"ET">>]]

\* the affine transform of the subset of a variable on a date, Affine(a, b,
\* c, d, e, f): 30 m pixels, and an origin of its own for every subset
SubsetAffine(variable, md) ==
    [a |-> 30, b |-> 0,
     c |-> IF variable = "ET" THEN 1000 ELSE IF variable = "PET" THEN 2000 ELSE 3000,
     d |-> 0, e |-> -30, f |-> 100 * md[1] + md[2]]

\* line 358: the six coefficients written into the stack file
AffineToFile(aff) == <<aff.a, aff.b, aff.c, aff.d, aff.e, aff.f>>

\* the coefficients read in the order of a GDAL geotransform, (c, a, b, f, d, e)
AffineFromGDAL(t) ==
    [a |-> t[2], b |-> t[3], c |-> t[1], d |-> t[5], e |-> t[6], f |-> t[4]]

\* line 79: Affine(*list(stack_file["affine"]))
AffineFromFile(t) ==
    [a |-> t[1], b |-> t[2], c |-> t[3], d |-> t[4], e |-> t[5], f |-> t[6]]

NoLog == [date |-> <<>>, et |-> "none", ET_subset |-> <<>>, pet |-> "none",
          esi |-> "none", requests |-> <<>>]

\* one iteration of the date loop, lines 126-326, for the date md = <<month, day>>.
\* error is the exception that leaves the loop body, "" when there is none.
DateIteration(ET, PET, ESI, aff, y, daily, types, md, etOut, uncOut, petOut, esiOut) ==
    IF etOut.kind # "ok"
    THEN ETFailed(ET, PET, ESI, aff, y, daily, md, etOut.kind)
    ELSE
    LET ET_subset  == etOut.raster
        unc        == UncertaintyBlock(daily, uncOut)
        pet        == PETBlock(PET, y, daily, types, md, petOut)
        esi_try    == ESIAttempted(pet.status)
        ESI_subset == IF esi_try /\ esiOut.kind = "ok" THEN esiOut.raster ELSE <<>>
        affine1    == IF pet.subset # <<>> THEN SubsetAffine("PET", md)
                      ELSE SubsetAffine("ET", md)
        affine2    == IF ESI_subset # <<>> THEN SubsetAffine("ESI", md) ELSE affine1
        esi        == ESIBlock(ESI, pet.subset, pet.stack, y, daily, types, md, ESI_subset)
    IN  [ET     |-> ETBlock(ET, y, daily, types, md, ET_subset),
         PET    |-> pet.stack,
         ESI    |-> esi.stack,
         affine |-> affine2,
         got    |-> {"ET"} \cup (IF pet.subset # <<>> THEN {"PET"} ELSE {})
                           \cup (IF ESI_subset # <<>> THEN {"ESI"} ELSE {}),
         error  |-> IF unc # "" THEN unc
                    ELSE IF esi.status # "ok" THEN esi.status ELSE "",
         log    |-> [date |-> md, et |-> "ok", ET_subset |-> ET_subset,
                     pet |-> pet.status,
                     esi |-> IF ~esi_try THEN "skipped"
                             ELSE IF esiOut.kind = "ok" THEN "ok" ELSE "failed",
                     requests |-> <<"ET">>
                                  \o (IF pet.requested THEN <<"PET">> ELSE <<>>)
                                  \o (IF esi_try THEN <<"ESI">> ELSE <<>>)]]

\* ------------------------------------------------------------------ inputs
Years == {2023, 2024}

Always == <<2000, 1, 1>>
Never  == <<2100, 1, 1>>

\* ET and ESI snapshots, no PET source, monthly precipitation
RegistrySnapshots ==
    << VariableType("et_daily", "ET", FALSE, TRUE, Always, Never),
       VariableType("esi_daily", "ESI", FALSE, TRUE, Always, Never),
       VariableType("ppt_monthly", "PPT", TRUE, TRUE, Always, Never) >>

\* monthly sums for every variable, PET not daylight corrected
RegistryMonthly ==
    << VariableType("et_monthly", "ET", TRUE, TRUE, Always, Never),
       VariableType("pet_monthly", "PET", TRUE, FALSE, Always, Never),
       VariableType("esi_monthly", "ESI", TRUE, TRUE, Always, Never),
       VariableType("ppt_monthly", "PPT", TRUE, TRUE, Always, Never) >>

\* sources that change during 2024, with overlapping ranges
RegistryTransition ==
    << VariableType("et_daily", "ET", FALSE, TRUE, Always, <<2024, 2, 1>>),
       VariableType("et_monthly", "ET", TRUE, TRUE, Always, Never),
       VariableType("pet_daily", "PET", FALSE, TRUE, Always, <<2024, 1, 15>>),
       VariableType("pet_monthly", "PET", TRUE, TRUE, <<2024, 1, 15>>, <<2024, 12, 1>>),
       VariableType("esi_daily", "ESI", FALSE, TRUE, Always, Never),
       VariableType("ppt_daily", "PPT", FALSE, TRUE, Always, Never) >>

Registries == {RegistrySnapshots, RegistryMonthly, RegistryTransition}

DatePool == << <<1, 1>>, <<1, 15>>, <<2, 1>>, <<4, 1>>, <<12, 31>> >>

\* the rasters of the data store: every date has its own values, and the ET
\* raster of 1 January is known in its first pixel only
Store(variable, md) ==
    LET k == md[1] + md[2]
        v == IF variable = "ET" THEN Num(k)
             ELSE IF variable = "PET" THEN Num(100 + k)
             ELSE Rat(1, k)
    IN  IF variable = "ET" /\ md = <<1, 1>> THEN Partial(v) ELSE Uniform(v)

\* what generate_subset can do for a variable on a date: it succeeds only
\* when a source of the variable covers the date
Outcomes(types, variable, y, md) ==
    {Failed(k) : k \in Failures}
    \cup (IF get_available_variable_source_for_date(types, variable, <<y, md[1], md[2]>>) # 0
          THEN {Retrieved(Store(variable, md))} ELSE {})

NotCalled == {Failed("Exception")}

\* ------------------------------------------------------------- generate_stack
Locals(p, m) ==
    /\ pc = p
    /\ ppt_month = m
    /\ cursor = 0
    /\ ndates = 0
    /\ ET_sparse_stack = <<>>
    /\ ESI_sparse_stack = <<>>
    /\ PET_sparse_stack = <<>>
    /\ affine = <<>>
    /\ last = NoLog
    /\ retrieved = {}
    /\ ET_stack = <<>>
    /\ PET_stack = <<>>
    /\ error = ""

\* no lookup in the registry and no inventory has been made
NoLookup ==
    /\ lookup = <<>>
    /\ S3_table = <<>>
    /\ inventory_result = <<>>

\* process_year is not running
NoProcessYear == debug = FALSE

\* no month slice has been taken
NoCalendar == month_slices = <<>>

\* calculate_hours_of_sunlight has not been called
NoSunlight ==
    /\ sun_args = <<>>
    /\ daylight_hours = <<>>

\* count_landsat_passes_for_month has not been called
NoCatalog ==
    /\ cache_files = <<>>
    /\ catalog_queries = 0
    /\ pass_count = <<>>
    /\ count_calls = 0

\* no S3Source has been constructed
NoS3Source ==
    /\ remove_temporary_files = FALSE
    /\ filenames = {}
    /\ temporary_directory = <<>>
    /\ yielded = <<>>
    /\ uses = 0

Init ==
    /\ year \in Years
    /\ daily_interpolation \in BOOLEAN
    /\ use_stack \in BOOLEAN
    /\ VARIABLE_TYPES \in Registries
    /\ dates_available = DatePool
    /\ stack_file = <<>>
    /\ calls = 1
    /\ Locals("start", 1)
    /\ NoLookup
    /\ istack = <<>>
    /\ iout = <<>>
    /\ ppt_scenario = {}
    /\ NoProcessYear
    /\ NoS3Source
    /\ NoCatalog
    /\ NoSunlight
    /\ NoCalendar

Inputs == <<year, daily_interpolation, use_stack, VARIABLE_TYPES, dates_available,
            istack, iout, lookup, S3_table, inventory_result, ppt_scenario,
            debug,
            remove_temporary_files,
            filenames,
            temporary_directory,
            yielded,
            uses,
            cache_files,
            catalog_queries,
            pass_count,
            count_calls,
            sun_args,
            daylight_hours,
            month_slices>>

Stacks == <<ET_sparse_stack, ESI_sparse_stack, PET_sparse_stack, affine, last, retrieved>>

\* lines 71-81: use_stack and the stack file exists
LoadStack ==
    /\ pc = "start"
    /\ use_stack /\ stack_file # <<>>
    /\ ET_stack' = stack_file.ET
    /\ PET_stack' = stack_file.PET
    /\ affine' = AffineFromFile(stack_file.affine)
    /\ pc' = "returned"
    /\ UNCHANGED <<Inputs, stack_file, calls, ppt_month, cursor, ndates,
                   ET_sparse_stack, ESI_sparse_stack, PET_sparse_stack, last, retrieved,
                   error>>

\* lines 83-92
BeginGenerate ==
    /\ pc = "start"
    /\ ~(use_stack /\ stack_file # <<>>)
    /\ pc' = "ppt"
    /\ UNCHANGED <<Inputs, stack_file, calls, ppt_month, cursor, ndates, Stacks,
                   ET_stack, PET_stack, error>>

\* a precipitation loop without the except clause: the error leaves it
PPTUnhandled(outcome) == IF outcome = "ok" THEN "" ELSE outcome

\* lines 106-121: the PPT retrieval is inside try / except Exception; the
\* error of a failed retrieval that leaves the block
PPTBlock(outcome) ==
    IF outcome = "ok" \/ outcome \in {"FileUnavailable", "BlankOutput", "Exception"}
    THEN "" ELSE outcome

\* lines 95-121: one month of the precipitation loop, the retrieval ending in
\* `outcome`; whatever it raises is logged and the loop goes on
PPTStep(outcome) ==
    /\ pc = "ppt"
    /\ LET ppt_source == get_available_variable_source_for_date(
                             VARIABLE_TYPES, "PPT", <<year, ppt_month, 1>>)
           requested  == SourceMonthly(VARIABLE_TYPES, ppt_source)
           raised     == PPTBlock(outcome)
       IN  /\ requested \/ outcome = "ok"
           /\ IF raised # ""
              THEN pc' = "raised" /\ error' = raised /\ ppt_month' = ppt_month
              ELSE /\ error' = error
                   /\ IF ppt_month = 12
                      THEN pc' = "dates" /\ ppt_month' = ppt_month
                      ELSE pc' = pc /\ ppt_month' = ppt_month + 1
    /\ UNCHANGED <<Inputs, stack_file, calls, cursor, ndates, Stacks,
                   ET_stack, PET_stack>>

\* the precipitation loop with any outcome in any month
PPTMonth == \E outcome \in {"ok"} \cup Failures : PPTStep(outcome)

\* the precipitation loop when the retrievals of the months of ppt_scenario
\* raise and the others succeed
PPTMonthScenario ==
    \E outcome \in (IF ppt_month \in ppt_scenario THEN Failures ELSE {"ok"}) :
        PPTStep(outcome)

\* lines 123-124: dates_in_year is empty
NoDates ==
    /\ pc = "dates"
    /\ ndates = 0
    /\ pc' = "raised"
    /\ error' = "no dates for year"
    /\ UNCHANGED <<Inputs, stack_file, calls, ppt_month, cursor, ndates, Stacks,
                   ET_stack, PET_stack>>

\* lines 126-326: the next date of dates_in_year (any later date of the
\* candidates; dates_in_year is sorted and has no duplicates)
ProcessDate ==
    /\ pc = "dates"
    /\ ndates < MaxDates
    /\ \E i \in (cursor + 1)..Len(dates_available) :
         LET md == dates_available[i] IN
         \E etOut  \in Outcomes(VARIABLE_TYPES, "ET", year, md) :
         \E uncOut \in IF etOut.kind = "ok" /\ ~daily_interpolation
                        THEN {"ok", "Exception"} ELSE {"ok"},
            petOut \in IF etOut.kind = "ok"
                        THEN Outcomes(VARIABLE_TYPES, "PET", year, md) ELSE NotCalled :
         \E esiOut \in IF /\ etOut.kind = "ok"
                           /\ ESIAttempted(PETBlock(PET_sparse_stack, year, daily_interpolation,
                                                    VARIABLE_TYPES, md, petOut).status)
                        THEN Outcomes(VARIABLE_TYPES, "ESI", year, md) ELSE NotCalled :
           LET it == DateIteration(ET_sparse_stack, PET_sparse_stack, ESI_sparse_stack,
                                   affine, year, daily_interpolation, VARIABLE_TYPES,
                                   md, etOut, uncOut, petOut, esiOut)
           IN  /\ cursor' = i
               /\ ndates' = ndates + 1
               /\ ET_sparse_stack' = it.ET
               /\ PET_sparse_stack' = it.PET
               /\ ESI_sparse_stack' = it.ESI
               /\ affine' = it.affine
               /\ last' = it.log
               /\ retrieved' = retrieved \cup it.got
               /\ error' = it.error
               /\ pc' = IF it.error = "" THEN "dates" ELSE "raised"
    /\ UNCHANGED <<Inputs, stack_file, calls, ppt_month, ET_stack, PET_stack>>

\* line 328
NoETStack(ET) == ET = <<>>

\* line 331
NoPETOrESIStack(PET, ESI) == PET = <<>> /\ ESI = <<>>

\* the quotient taken the other way round, ESI / ET
DerivePETInverted(ET, ESI) ==
    [t \in 1..Len(ET) |-> [p \in Pixels |-> Div(ESI[t][p], ET[t][p])]]

\* line 336: PET_sparse_stack = ET_sparse_stack / ESI_sparse_stack
DerivePET(ET, ESI) ==
    [t \in 1..Len(ET) |-> [p \in Pixels |-> Div(ET[t][p], ESI[t][p])]]

\* interpolation in both modes
DensifyAlways(daily, stack) == interpolate_stack(stack)

\* lines 338-345
Densify(daily, stack) == IF daily THEN interpolate_stack(stack) ELSE stack

\* lines 328-360, after the last date
Finalize ==
    /\ pc = "dates"
    /\ ndates > 0
    /\ IF NoETStack(ET_sparse_stack)
       THEN /\ pc' = "raised"
            /\ error' = "no ET stack generated"
            /\ UNCHANGED <<PET_sparse_stack, ET_stack, PET_stack, stack_file>>
       ELSE IF NoPETOrESIStack(PET_sparse_stack, ESI_sparse_stack)
       THEN /\ pc' = "raised"
            /\ error' = "no PET or ESI stack generated"
            /\ UNCHANGED <<PET_sparse_stack, ET_stack, PET_stack, stack_file>>
       ELSE LET PET == IF PET_sparse_stack = <<>>
                       THEN DerivePET(ET_sparse_stack, ESI_sparse_stack)
                       ELSE PET_sparse_stack
                ET_dense  == Densify(daily_interpolation, ET_sparse_stack)
                PET_dense == Densify(daily_interpolation, PET)
            IN  /\ PET_sparse_stack' = PET
                /\ ET_stack' = ET_dense
                /\ PET_stack' = PET_dense
                /\ stack_file' = IF use_stack
                                 THEN [ET |-> ET_dense, PET |-> PET_dense,
                                       affine |-> AffineToFile(affine)]
                                 ELSE stack_file
                /\ pc' = "returned"
                /\ error' = error
    /\ UNCHANGED <<Inputs, calls, ppt_month, cursor, ndates,
                   ET_sparse_stack, ESI_sparse_stack, affine, last, retrieved>>

\* process_year calls generate_stack again for the same year and stack file
CallAgain ==
    /\ pc = "returned"
    /\ use_stack
    /\ calls = 1
    /\ calls' = 2
    /\ pc' = "start"
    /\ cursor' = 0
    /\ ndates' = 0
    /\ ET_sparse_stack' = <<>>
    /\ ESI_sparse_stack' = <<>>
    /\ PET_sparse_stack' = <<>>
    /\ affine' = <<>>
    /\ last' = NoLog
    /\ retrieved' = {}
    /\ ET_stack' = <<>>
    /\ PET_stack' = <<>>
    /\ UNCHANGED <<Inputs, stack_file, ppt_month, error>>

Next ==
    \/ LoadStack
    \/ BeginGenerate
    \/ PPTMonth
    \/ NoDates
    \/ ProcessDate
    \/ Finalize
    \/ CallAgain

Spec == Init /\ [][Next]_vars

\* ------------------------------------------- interpolate_stack on its own
\* number of calls of interpolate_stack on the same array
MaxCalls == 2

SampleValues == {NaN, Num(5), Num(8), Num(3)}

\* a stack whose odd pixels hold the time series col and whose even pixels
\* hold it reversed, without its first sample
StackOf(col) ==
    [t \in 1..Len(col) |->
        [p \in Pixels |-> IF p % 2 = 1 THEN col[t]
                          ELSE IF t = Len(col) THEN NaN
                          ELSE col[Len(col) + 1 - t]]]

\* a year with observations 5.0, 8.0 and 3.0 on day of year 1, 100 and 200
ThreeObservations ==
    [t \in 1..365 |-> IF t = 1 THEN Uniform(Num(5))
                      ELSE IF t = 100 THEN Uniform(Num(8))
                      ELSE IF t = 200 THEN Uniform(Num(3))
                      ELSE Uniform(NaN)]

InterpInit ==
    /\ year = 2023
    /\ daily_interpolation = TRUE
    /\ use_stack = FALSE
    /\ VARIABLE_TYPES = RegistrySnapshots
    /\ dates_available = <<>>
    /\ stack_file = <<>>
    /\ calls = 0
    /\ Locals("interpolate", 1)
    /\ NoLookup
    /\ iout = <<>>
    /\ ppt_scenario = {}
    /\ NoProcessYear
    /\ NoS3Source
    /\ NoCatalog
    /\ NoSunlight
    /\ NoCalendar
    /\ \/ \E len \in 1..MaxLen : \E col \in [1..len -> SampleValues] : istack = StackOf(col)
       \/ istack = ThreeObservations

\* interpolate_stack(stack), lines 16-45
InterpolateCall ==
    /\ pc = "interpolate"
    /\ Len(iout) < MaxCalls
    /\ iout' = Append(iout, interpolate_stack(istack))
    /\ istack' = StackAfterInterpolate(istack)
    /\ UNCHANGED <<year, daily_interpolation, use_stack, VARIABLE_TYPES, dates_available,
                   stack_file, pc, calls, ppt_month, cursor, ndates, Stacks,
                   ET_stack, PET_stack, error, lookup, S3_table, inventory_result,
                   ppt_scenario,
                   debug,
                   remove_temporary_files,
                   filenames,
                   temporary_directory,
                   yielded,
                   uses,
                   cache_files,
                   catalog_queries,
                   pass_count,
                   count_calls,
                   sun_args,
                   daylight_hours,
                   month_slices>>

SpecInterp == InterpInit /\ [][InterpolateCall]_vars

\* ------------------------------------------------- a whole year of dates
\* every day of the year is a date, in order
RECURSIVE DaysOfMonths(_, _)
DaysOfMonths(y, m) ==
    IF m > 12 THEN <<>>
    ELSE [d \in 1..MonthLen(y, m) |-> <<m, d>>] \o DaysOfMonths(y, m + 1)

\* the sets of months in which the PPT retrieval raises: none, every month, the
\* first, the last, and some in between
PPTScenarios == {{}, 1..12, {1}, {12}, {2, 7, 8}}

\* ET is 2.0 and ESI is 0.5 in every pixel of every day; no PET source
YearInit ==
    /\ year \in Years
    /\ daily_interpolation = TRUE
    /\ use_stack \in BOOLEAN
    /\ VARIABLE_TYPES = RegistrySnapshots
    /\ dates_available = DaysOfMonths(year, 1)
    /\ stack_file = <<>>
    /\ calls = 1
    /\ Locals("start", 1)
    /\ NoLookup
    /\ istack = <<>>
    /\ iout = <<>>
    /\ ppt_scenario \in PPTScenarios
    /\ NoProcessYear
    /\ NoS3Source
    /\ NoCatalog
    /\ NoSunlight
    /\ NoCalendar

\* lines 126-326 for the next day of the year
ProcessDay ==
    /\ pc = "dates"
    /\ cursor < Len(dates_available)
    /\ LET md == dates_available[cursor + 1]
           it == DateIteration(ET_sparse_stack, PET_sparse_stack, ESI_sparse_stack,
                               affine, year, daily_interpolation, VARIABLE_TYPES, md,
                               Retrieved(Uniform(Num(2))), "ok", Failed("FileUnavailable"),
                               Retrieved(Uniform(Rat(1, 2))))
       IN  /\ cursor' = cursor + 1
           /\ ndates' = ndates + 1
           /\ ET_sparse_stack' = it.ET
           /\ PET_sparse_stack' = it.PET
           /\ ESI_sparse_stack' = it.ESI
           /\ affine' = it.affine
           /\ last' = it.log
           /\ retrieved' = retrieved \cup it.got
           /\ error' = it.error
           /\ pc' = IF it.error = "" THEN "dates" ELSE "raised"
    /\ UNCHANGED <<Inputs, stack_file, calls, ppt_month, ET_stack, PET_stack>>

\* lines 328-360 once the last day has been processed
FinalizeYear ==
    /\ cursor = Len(dates_available)
    /\ Finalize

NextYear ==
    \/ LoadStack
    \/ BeginGenerate
    \/ PPTMonthScenario
    \/ ProcessDay
    \/ FinalizeYear
    \/ CallAgain

SpecYear == YearInit /\ [][NextYear]_vars

\* ------------------------------------- the registry and the inventory alone
\* number of sources of a registry
MaxSources == 3

LookupVariables == {"ET", "PET"}

\* validity ranges [start, end) that overlap, touch and leave gaps
LookupRanges ==
    { <<<<2024, 1, 1>>, <<2024, 2, 1>>>>,
      <<<<2024, 1, 15>>, Never>>,
      <<Always, <<2024, 1, 15>>>> }

LookupSources ==
    { VariableType("source", variable, monthly, TRUE, r[1], r[2]) :
          variable \in LookupVariables, monthly \in BOOLEAN, r \in LookupRanges }

\* dates before, on and after the starts and ends of the ranges
LookupDates ==
    << <<2023, 12, 31>>, <<2024, 1, 1>>, <<2024, 1, 15>>, <<2024, 1, 31>>, <<2024, 2, 1>> >>

\* the file table: every date, one entry that is not a date, one date twice
FileTable == LookupDates \o <<Unparsable, <<2024, 1, 15>>>>

LookupInit ==
    /\ year = 2024
    /\ daily_interpolation = TRUE
    /\ use_stack = FALSE
    /\ \E n \in 1..MaxSources : VARIABLE_TYPES \in [1..n -> LookupSources]
    /\ dates_available = <<>>
    /\ stack_file = <<>>
    /\ calls = 0
    /\ Locals("registry", 1)
    /\ NoLookup
    /\ istack = <<>>
    /\ iout = <<>>
    /\ ppt_scenario = {}
    /\ NoProcessYear
    /\ NoS3Source
    /\ NoCatalog
    /\ NoSunlight
    /\ NoCalendar

Untouched == <<year, daily_interpolation, use_stack, VARIABLE_TYPES, dates_available,
               stack_file, pc, calls, ppt_month, cursor, ndates, Stacks,
               ET_stack, PET_stack, error, istack, iout, ppt_scenario,
               debug,
               remove_temporary_files,
               filenames,
               temporary_directory,
               yielded,
               uses,
               cache_files,
               catalog_queries,
               pass_count,
               count_calls,
               sun_args,
               daylight_hours,
               month_slices>>

\* get_available_variable_source_for_date(variable, date)
LookupCall ==
    /\ pc = "registry"
    /\ lookup = <<>> /\ S3_table = <<>>
    /\ \E variable \in LookupVariables : \E k \in 1..Len(LookupDates) :
          lookup' = [variable |-> variable, date |-> LookupDates[k],
                     source |-> get_available_variable_source_for_date(
                                    VARIABLE_TYPES, variable, LookupDates[k])]
    /\ UNCHANGED <<Untouched, S3_table, inventory_result>>

\* S3Source.inventory() on the file table
InventoryCall ==
    /\ pc = "registry"
    /\ lookup = <<>> /\ S3_table = <<>>
    /\ S3_table' = FileTable
    /\ inventory_result' = inventory(VARIABLE_TYPES, FileTable)
    /\ UNCHANGED <<Untouched, lookup>>

NextLookup ==
    \/ LookupCall
    \/ InventoryCall

SpecLookup == LookupInit /\ [][NextLookup]_vars

\* ------------------------------------------------ S3Source.get_filename
\* number of uses of get_filename
MaxUses == 3

\* the dates get_filename is asked for
S3Dates == << <<2024, 1, 1>>, <<2024, 1, 15>>, <<2024, 2, 1>> >>

\* the dates of the rows of the file table: there is no file for February
S3Files == << <<2024, 1, 1>>, <<2024, 1, 15>> >>

\* a file of the temporary directory is not there, a readable raster, or corrupted
FileStates == {"absent", "good", "corrupt"}

\* line 102: the date of the key, the first of the month for a monthly source
KeyDate(source, date) == IF source.monthly THEN <<date[1], date[2], 1>> ELSE date

\* lines 91-156: get_filename up to its yield; the file of a key is named
\* after the key, and `downloads` tells whether bucket.download_file succeeds
GetFilenameEnter(types, table, cache, directory, variable, date, downloads) ==
    LET variable_source == get_available_variable_source_for_date(types, variable, date)
        nothing == [raised |-> "FileUnavailable", yielded |-> <<>>,
                    filenames |-> cache, directory |-> directory]
    IN  IF variable_source = 0 THEN nothing
        ELSE LET key == KeyDate(types[variable_source], date)
             IN  IF key \in cache
                 THEN [raised |-> "", yielded |-> key, filenames |-> cache,
                       directory |-> directory]
                 ELSE IF ~\E k \in 1..Len(table) : table[k] = key THEN nothing
                 ELSE [raised |-> "", yielded |-> key, filenames |-> cache \cup {key},
                       directory |-> [directory EXCEPT ![key] =
                                         IF @ = "corrupt" THEN "absent"
                                         ELSE IF @ = "good" THEN "good"
                                         ELSE IF downloads THEN "good" ELSE "absent"]]

\* lines 158-162: get_filename after its yield; os.remove raises when the
\* file is not there
GetFilenameExit(remove, directory, filename) ==
    IF ~remove THEN [raised |-> "", directory |-> directory]
    ELSE IF directory[filename] = "absent"
    THEN [raised |-> "FileNotFoundError", directory |-> directory]
    ELSE [raised |-> "", directory |-> [directory EXCEPT ![filename] = "absent"]]

S3Init ==
    /\ year = 2024
    /\ daily_interpolation = TRUE
    /\ use_stack = FALSE
    /\ VARIABLE_TYPES \in {RegistrySnapshots, RegistryMonthly}
    /\ dates_available = <<>>
    /\ stack_file = <<>>
    /\ calls = 0
    /\ Locals("S3Source", 1)
    /\ lookup = <<>>
    /\ inventory_result = <<>>
    /\ S3_table = S3Files
    /\ istack = <<>>
    /\ iout = <<>>
    /\ ppt_scenario = {}
    /\ NoProcessYear
    /\ remove_temporary_files \in BOOLEAN
    /\ filenames = {}
    /\ temporary_directory \in [{S3Files[k] : k \in 1..Len(S3Files)} -> FileStates]
    /\ yielded = <<>>
    /\ uses = 0
    /\ NoCatalog
    /\ NoSunlight
    /\ NoCalendar

OutsideS3 == <<year, daily_interpolation, use_stack, VARIABLE_TYPES, dates_available,
               stack_file, pc, calls, ppt_month, cursor, ndates, Stacks,
               ET_stack, PET_stack, istack, iout, lookup, S3_table, inventory_result,
               ppt_scenario, debug, remove_temporary_files,
               cache_files,
               catalog_queries,
               pass_count,
               count_calls,
               sun_args,
               daylight_hours,
               month_slices>>

\* `with source.get_filename(tile, "ET", date) as filename:` is entered
EnterWith ==
    /\ pc = "S3Source"
    /\ yielded = <<>>
    /\ uses < MaxUses
    /\ \E k \in 1..Len(S3Dates) : \E downloads \in BOOLEAN :
          LET r == GetFilenameEnter(VARIABLE_TYPES, S3_table, filenames,
                                    temporary_directory, "ET", S3Dates[k], downloads)
          IN  /\ yielded' = r.yielded
              /\ filenames' = r.filenames
              /\ temporary_directory' = r.directory
              /\ error' = r.raised
    /\ uses' = uses + 1
    /\ UNCHANGED OutsideS3

\* the body of the with statement ends and get_filename runs to its end
ExitWith ==
    /\ pc = "S3Source"
    /\ yielded # <<>>
    /\ LET r == GetFilenameExit(remove_temporary_files, temporary_directory, yielded)
       IN  /\ temporary_directory' = r.directory
           /\ error' = r.raised
    /\ yielded' = <<>>
    /\ UNCHANGED <<OutsideS3, filenames, uses>>

\* the body of the with statement raises: the exception is thrown into
\* get_filename at its yield and nothing after the yield runs
BodyRaises ==
    /\ pc = "S3Source"
    /\ yielded # <<>>
    /\ yielded' = <<>>
    /\ error' = "Exception"
    /\ UNCHANGED <<OutsideS3, filenames, temporary_directory, uses>>

NextS3 ==
    \/ EnterWith
    \/ ExitWith
    \/ BodyRaises

SpecS3 == S3Init /\ [][NextS3]_vars

\* ------------------------------------- count_landsat_passes_for_month
\* number of calls of count_landsat_passes_for_month
MaxCountCalls == 3

\* largest number of passes the catalog reports for a month
MaxPasses == 1

\* the subset_directory arguments: the default and a directory
CacheDirectories == {"", "subsets"}

CacheMonths == {1, 2}

\* lines 81-89: the cache file of a directory, year and month
CacheFilename(subset_directory, y, month) ==
    <<IF subset_directory = "" THEN "landsat_pass_count_cache"
      ELSE subset_directory \o "/landsat_pass_count_cache", y, month>>

CacheFilenames ==
    {CacheFilename(d, 2024, m) : d \in CacheDirectories, m \in CacheMonths}

\* a cache file is not there, holds no pass_count (it is not JSON, or JSON
\* without the key), or holds the pass_count written at lines 153-163
NoFile == [exists |-> FALSE, has_count |-> FALSE, pass_count |-> 0]
NoPassCount == [exists |-> TRUE, has_count |-> FALSE, pass_count |-> 0]
Written(count) == [exists |-> TRUE, has_count |-> TRUE, pass_count |-> count]

\* a cache test that takes a count of 0 for a missing count
CacheHitTruthy(file) == file.exists /\ file.has_count /\ file.pass_count # 0

\* lines 90-99: the file exists and its pass_count is not None
CacheHit(file) == file.exists /\ file.has_count

\* what the searches of the catalog give: the number of distinct passes, or
\* an exception when the retries are used up
Found(count) == [raised |-> "", count |-> count]
SearchFailed == [raised |-> "Exception", count |-> 0]

\* lines 63-167; result is <<the count returned>>, <<>> when the call raised
count_landsat_passes_for_month(files, subset_directory, y, month, found) ==
    LET cache_filename == CacheFilename(subset_directory, y, month)
    IN  IF CacheHit(files[cache_filename])
        THEN [result |-> <<files[cache_filename].pass_count>>, raised |-> "",
              queried |-> FALSE, files |-> files]
        ELSE IF found.raised # ""
        THEN [result |-> <<>>, raised |-> found.raised, queried |-> TRUE, files |-> files]
        ELSE [result |-> <<found.count>>, raised |-> "", queried |-> TRUE,
              files |-> [files EXCEPT ![cache_filename] = Written(found.count)]]

CatalogInit ==
    /\ year = 2024
    /\ daily_interpolation = TRUE
    /\ use_stack = FALSE
    /\ VARIABLE_TYPES = RegistrySnapshots
    /\ dates_available = <<>>
    /\ stack_file = <<>>
    /\ calls = 0
    /\ Locals("catalog", 1)
    /\ NoLookup
    /\ istack = <<>>
    /\ iout = <<>>
    /\ ppt_scenario = {}
    /\ NoProcessYear
    /\ NoS3Source
    /\ cache_files \in [CacheFilenames -> {NoFile, NoPassCount}]
    /\ catalog_queries = 0
    /\ pass_count = <<>>
    /\ count_calls = 0
    /\ NoSunlight
    /\ NoCalendar

OutsideCatalog ==
    <<year, daily_interpolation, use_stack, VARIABLE_TYPES, dates_available,
      stack_file, pc, calls, ppt_month, cursor, ndates, Stacks,
      ET_stack, PET_stack, istack, iout, lookup, S3_table, inventory_result,
      ppt_scenario, debug, remove_temporary_files, filenames, temporary_directory,
      yielded, uses, sun_args, daylight_hours,
      month_slices>>

\* a call of count_landsat_passes_for_month for a month of 2024
CountCall ==
    /\ pc = "catalog"
    /\ count_calls < MaxCountCalls
    /\ \E d \in CacheDirectories, m \in CacheMonths :
       \E found \in {Found(n) : n \in 0..MaxPasses} \cup {SearchFailed} :
          LET r == count_landsat_passes_for_month(cache_files, d, year, m, found)
          IN  /\ r.queried \/ found = Found(0)
              /\ cache_files' = r.files
              /\ pass_count' = [directory |-> d, month |-> m, result |-> r.result]
              /\ error' = r.raised
              /\ catalog_queries' = catalog_queries + (IF r.queried THEN 1 ELSE 0)
    /\ count_calls' = count_calls + 1
    /\ UNCHANGED OutsideCatalog

SpecCatalog == CatalogInit /\ [][CountCall]_vars

\* -------------------------------------- calculate_hours_of_sunlight alone
\* days of the year: the first and the last, the equinoxes, the solstices
SunDays == {1, 79, 80, 172, 266, 355, 366}

\* tangents of the centroid latitude: the equator and 71.6 degrees north and south
TanLatitudes == {Num(0), Num(3), Num(-3)}

\* tangents of the solar declination, which stays within 23.5 degrees of 0:
\* the series of lines 71-88 is not evaluated, any day may have any of them
TanDeclinations ==
    {Rat(-2, 5), Rat(-1, 3), Rat(-1, 100), Num(0), Rat(1, 100), Rat(1, 3), Rat(2, 5)}

\* the calls whose sunrise hour angle is a rational of the model
SunArgs ==
    {a \in [doy : SunDays, tan_latitude : TanLatitudes, tan_solar_dec : TanDeclinations] :
        ~IsNaN(sha_deg_from_doy_lat(a.tan_solar_dec, a.tan_latitude))}

SunInit ==
    /\ year = 2024
    /\ daily_interpolation = TRUE
    /\ use_stack = FALSE
    /\ VARIABLE_TYPES = RegistryMonthly
    /\ dates_available = <<>>
    /\ stack_file = <<>>
    /\ calls = 0
    /\ Locals("sunlight", 1)
    /\ NoLookup
    /\ istack = <<>>
    /\ iout = <<>>
    /\ ppt_scenario = {}
    /\ NoProcessYear
    /\ NoS3Source
    /\ NoCatalog
    /\ sun_args \in SunArgs
    /\ daylight_hours = <<>>
    /\ NoCalendar

\* calculate_hours_of_sunlight(ROI_latlon, date_step)
SunlightCall ==
    /\ pc = "sunlight"
    /\ daylight_hours = <<>>
    /\ daylight_hours' = calculate_hours_of_sunlight(sun_args.tan_latitude,
                                                     sun_args.tan_solar_dec)
    /\ UNCHANGED <<year, daily_interpolation, use_stack, VARIABLE_TYPES, dates_available,
                   stack_file, pc, calls, ppt_month, cursor, ndates, Stacks,
                   ET_stack, PET_stack, error, istack, iout, lookup, S3_table,
                   inventory_result, ppt_scenario, debug, remove_temporary_files,
                   filenames, temporary_directory, yielded, uses, cache_files,
                   catalog_queries, pass_count, count_calls, sun_args, month_slices>>

SpecSun == SunInit /\ [][SunlightCall]_vars

\* ------------------------------------------------ the month slices alone
\* leap years, common years, and the century years 1900, 2000 and 2100
CalendarYears == {1900, 2000, 2100} \cup (2019..2028)

CalendarInit ==
    /\ year \in CalendarYears
    /\ daily_interpolation = TRUE
    /\ use_stack = FALSE
    /\ VARIABLE_TYPES = RegistrySnapshots
    /\ dates_available = <<>>
    /\ stack_file = <<>>
    /\ calls = 0
    /\ Locals("calendar", 1)
    /\ NoLookup
    /\ istack = <<>>
    /\ iout = <<>>
    /\ ppt_scenario = {}
    /\ NoProcessYear
    /\ NoS3Source
    /\ NoCatalog
    /\ NoSunlight
    /\ month_slices = <<>>

\* get_one_month_slice(year, month) for the next month of the year
MonthSlice ==
    /\ pc = "calendar"
    /\ Len(month_slices) < 12
    /\ month_slices' = Append(month_slices,
                              get_one_month_slice(year, Len(month_slices) + 1))
    /\ UNCHANGED <<year, daily_interpolation, use_stack, VARIABLE_TYPES, dates_available,
                   stack_file, pc, calls, ppt_month, cursor, ndates, Stacks,
                   ET_stack, PET_stack, error, istack, iout, lookup, S3_table,
                   inventory_result, ppt_scenario, debug, remove_temporary_files,
                   filenames, temporary_directory, yielded, uses, cache_files,
                   catalog_queries, pass_count, count_calls, sun_args, daylight_hours>>

SpecCalendar == CalendarInit /\ [][MonthSlice]_vars

\* ------------------------------------------- process_year around the call
\* lines 95-98: daily interpolation unless the ET source of 1 January is monthly
DailyMode(types, y) ==
    ~SourceMonthly(types, get_available_variable_source_for_date(types, "ET", <<y, 1, 1>>))

\* the candidate dates of the year
YearDates == << <<1, 1>>, <<2, 1>> >>

\* the stack file an earlier run wrote for the year
EarlierStack(total_date_steps) ==
    [ET     |-> [t \in 1..total_date_steps |-> Uniform(Num(2))],
     PET    |-> [t \in 1..total_date_steps |-> Uniform(Num(4))],
     affine |-> AffineToFile(SubsetAffine("ET", <<1, 1>>))]

ProcessYearInit ==
    /\ year \in Years
    /\ VARIABLE_TYPES \in Registries
    /\ daily_interpolation = DailyMode(VARIABLE_TYPES, year)
    /\ use_stack \in BOOLEAN
    /\ debug \in BOOLEAN
    /\ dates_available = YearDates
    /\ stack_file \in {<<>>, EarlierStack(TimeSteps(year, daily_interpolation))}
    /\ calls = 1
    /\ Locals("start", 1)
    /\ NoLookup
    /\ istack = <<>>
    /\ iout = <<>>
    /\ ppt_scenario = {}
    /\ NoS3Source
    /\ NoCatalog
    /\ NoSunlight
    /\ NoCalendar

YearFrame == <<Inputs, stack_file, calls, ppt_month, cursor, ndates, Stacks,
               ET_stack, PET_stack>>

\* lines 101-107: with use_stack the status line is written inside the try
\* block before generate_stack is called, and the write may raise
WriteStatusRaises ==
    /\ pc = "start"
    /\ use_stack
    /\ pc' = "raised"
    /\ error' = "Exception"
    /\ UNCHANGED YearFrame

\* lines 122-129: except Exception around the call of generate_stack
ExceptClause ==
    /\ pc = "raised"
    /\ pc' = IF debug THEN "sys.exit" ELSE "return None"
    /\ UNCHANGED <<YearFrame, error>>

\* lines 131-144: the monthly aggregation of the stacks generate_stack returned
ProcessMonthly ==
    /\ pc = "returned"
    /\ pc' = "process_monthly"
    /\ UNCHANGED <<YearFrame, error>>

NextProcessYear ==
    \/ WriteStatusRaises
    \/ LoadStack
    \/ BeginGenerate
    \/ PPTMonth
    \/ NoDates
    \/ ProcessDate
    \/ Finalize
    \/ CallAgain
    \/ ExceptClause
    \/ ProcessMonthly

SpecProcessYear == ProcessYearInit /\ [][NextProcessYear]_vars

\* ------------------------------------------------------------------ claims
\* a step of the date loop
DateStep == cursor' # cursor /\ cursor' > 0

\* the ET sparse stack a date iteration starts from, allocated
ETBefore ==
    IF ET_sparse_stack = <<>>
    THEN generate_sparse_stack(TimeSteps(year, daily_interpolation))
    ELSE ET_sparse_stack

ETSourceMonthly(md) ==
    SourceMonthly(VARIABLE_TYPES,
        get_available_variable_source_for_date(VARIABLE_TYPES, "ET", <<year, md[1], md[2]>>))

\* first slot and number of slots of month m, from the calendar alone
RECURSIVE CalendarStart(_, _)
CalendarStart(y, m) ==
    IF m = 1 THEN 0 ELSE CalendarStart(y, m - 1) + MonthLen(y, m - 1)

InMonth(y, m, t) == CalendarStart(y, m) <= t /\ t < CalendarStart(y, m) + MonthLen(y, m)

\* the sum of pixel p over the slots a .. b-1 of a stack
RECURSIVE SumSlots(_, _, _, _)
SumSlots(stack, a, b, p) ==
    IF a >= b THEN Num(0) ELSE Add(stack[a + 1][p], SumSlots(stack, a + 1, b, p))

\* C1: in daily mode a non-monthly ET observation dated d is written into the
\* slot get_day_of_year(d) (only where that slot is still NaN) and into no
\* other slot of the ET sparse stack.
C1_DayOfYearSlot ==
    [][ (DateStep /\ daily_interpolation /\ last'.et = "ok" /\ ~ETSourceMonthly(last'.date))
        => LET md   == last'.date
               slot == get_day_of_year(year, md[1], md[2])
           IN  \A t \in 0..(Len(ET_sparse_stack') - 1) :
                  ET_sparse_stack'[t + 1] =
                      IF t = slot
                      THEN WhereNaN(ETBefore[t + 1], last'.ET_subset)
                      ELSE ETBefore[t + 1] ]_vars

\* C2: when the date loop ends with an ET subset retrieved but no PET and no
\* ESI subset ever retrieved, generate_stack raises instead of returning.
C2_NoPETNoESIRaises ==
    ("ET" \in retrieved /\ "PET" \notin retrieved /\ "ESI" \notin retrieved)
        => pc # "returned"

\* C3: while no ET subset has been retrieved in a call that builds the stack,
\* generate_stack has returned nothing and written no stack file: it can only
\* end by raising.
C3_NoETNoStack ==
    (calls = 1 /\ "ET" \notin retrieved)
        => /\ pc \in {"start", "ppt", "dates", "raised"}
           /\ ET_stack = <<>>
           /\ PET_stack = <<>>
           /\ stack_file = <<>>

C3_Witness ==
    /\ pc = "raised"
    /\ use_stack
    /\ ndates = MaxDates
    /\ "ET" \notin retrieved
    /\ last.et = "failed"

\* C4: no error raised while a date is processed leaves the date loop: every
\* step of the loop goes on to the next date.
C4_LoopNeverRaises ==
    [][DateStep => pc' = "dates"]_vars

\* C5: for a date whose ET retrieval succeeded, PET is attempted first and ESI
\* is retrieved exactly when the PET attempt failed (no source, retrieval
\* raised, or processing raised); for a date whose ET failed neither is.
C5_ESIOnlyAfterPETFailure ==
    /\ last.et = "failed" => last.requests = <<"ET">>
    /\ last.et = "ok" =>
         /\ last.pet \in {"ok", "nosource", "failed", "IndexError"}
         /\ last.pet = "ok" => last.requests = <<"ET", "PET">>
         /\ last.pet = "nosource" => last.requests = <<"ET", "ESI">>
         /\ last.pet \in {"failed", "IndexError"} => last.requests = <<"ET", "PET", "ESI">>

C5_Witness ==
    /\ last.et = "ok"
    /\ last.pet = "IndexError"
    /\ last.esi = "ok"
    /\ "PET" \in retrieved /\ "ESI" \in retrieved

\* C10: in daily mode a monthly ET sum v is written as v / days_in_month into
\* exactly the day slots of its month, and the slots of the month sum to v.
C10_MonthlySumRoundTrip ==
    [][ (DateStep /\ daily_interpolation /\ last'.et = "ok" /\ ETSourceMonthly(last'.date))
        => LET m == last'.date[1]
               v == last'.ET_subset
           IN  /\ \A t \in 0..(Len(ET_sparse_stack') - 1) :
                     ET_sparse_stack'[t + 1] =
                         IF InMonth(year, m, t)
                         THEN [p \in Pixels |-> DivInt(v[p], MonthLen(year, m))]
                         ELSE ETBefore[t + 1]
               /\ Cardinality({t \in 0..(Len(ET_sparse_stack') - 1) : InMonth(year, m, t)})
                     = MonthLen(year, m)
               /\ \A p \in Pixels :
                     SumSlots(ET_sparse_stack', CalendarStart(year, m),
                              CalendarStart(year, m) + MonthLen(year, m), p) = v[p] ]_vars

\* April 2023, a 30-day month on slots 90..119, filled with 5/30 after February
C10_Witness ==
    /\ daily_interpolation
    /\ year = 2023
    /\ pc = "dates"
    /\ ndates = 2
    /\ last.et = "ok"
    /\ last.date = <<4, 1>>
    /\ ETSourceMonthly(last.date)
    /\ last.ET_subset = Uniform(Num(5))
    /\ \A t \in 90..119 : ET_sparse_stack[t + 1] = Uniform(Rat(1, 6))
    /\ ET_sparse_stack[90] = Uniform(NaN)
    /\ ET_sparse_stack[121] = Uniform(NaN)
    /\ ET_sparse_stack[32] = Uniform(Rat(3, 28))

\* the PET source of a date and the PET sparse stack a date iteration starts
\* from, allocated
PETSource(md) ==
    get_available_variable_source_for_date(VARIABLE_TYPES, "PET", <<year, md[1], md[2]>>)

PETBefore ==
    IF PET_sparse_stack = <<>>
    THEN generate_sparse_stack(TimeSteps(year, daily_interpolation))
    ELSE PET_sparse_stack

\* C11: in daily mode a monthly PET sum v of a source that is not daylight
\* corrected is written into every day slot t of its month as
\* (v / days_in_month) / 24 * hours_of_sunlight(the calendar date of slot t),
\* and no slot outside the month changes.
C11_SunlightPerDay ==
    [][ (/\ DateStep /\ daily_interpolation
         /\ last'.et = "ok" /\ last'.pet = "ok"
         /\ VARIABLE_TYPES[PETSource(last'.date)].monthly
         /\ ~VARIABLE_TYPES[PETSource(last'.date)].daylight_corrected)
        => LET m == last'.date[1]
               v == Store("PET", last'.date)
           IN  /\ Len(PET_sparse_stack') = Len(PETBefore)
               /\ \A t \in 0..(Len(PETBefore) - 1) :
                     PET_sparse_stack'[t + 1] =
                         IF InMonth(year, m, t)
                         THEN [p \in Pixels |->
                                 TimesSunlight(DivInt(DivInt(v[p], MonthLen(year, m)), 24), t + 1)]
                         ELSE PETBefore[t + 1] ]_vars

\* February 2024: 103 / 29 / 24 times the hours of sunlight of day of year
\* 32 .. 60 in the slots 31 .. 59
C11_Witness ==
    /\ daily_interpolation
    /\ year = 2024
    /\ pc = "dates"
    /\ last.et = "ok" /\ last.pet = "ok"
    /\ last.date = <<2, 1>>
    /\ VARIABLE_TYPES = RegistryMonthly
    /\ PET_sparse_stack[32] = Uniform([n |-> 103, d |-> 696, sun |-> 32])
    /\ PET_sparse_stack[60] = Uniform([n |-> 103, d |-> 696, sun |-> 60])
    /\ PET_sparse_stack[61] = Uniform(NaN)
    /\ PET_sparse_stack[31] = Uniform(NaN)

\* C12: when the PET source of a date is monthly and already daylight
\* corrected, no value written into the PET stack for that date is scaled by
\* hours of sunlight, in daily mode and in monthly mode.
C12_CorrectedSourceNotScaled ==
    [][ (/\ DateStep
         /\ last'.et = "ok" /\ last'.pet = "ok"
         /\ VARIABLE_TYPES[PETSource(last'.date)].monthly
         /\ VARIABLE_TYPES[PETSource(last'.date)].daylight_corrected)
        => \A t \in 1..Len(PET_sparse_stack') :
              PET_sparse_stack'[t] # PETBefore[t]
                 => \A p \in Pixels : PET_sparse_stack'[t][p].sun = 0 ]_vars

\* the time dimension the mode asks for
TimeDimension == IF daily_interpolation THEN (IF IsLeap(year) THEN 366 ELSE 365) ELSE 12

\* C13: every ET, PET and ESI sparse stack that is allocated has one slot per
\* day of the year (365 or 366) in daily mode and 12 slots in monthly mode,
\* and so have the ET and PET stacks that generate_stack returns.
C13_TimeDimension ==
    /\ \A stack \in {ET_sparse_stack, PET_sparse_stack, ESI_sparse_stack} :
          stack # <<>> => Len(stack) = TimeDimension
    /\ pc = "returned" => Len(ET_stack) = TimeDimension /\ Len(PET_stack) = TimeDimension

C13_Witness ==
    /\ pc = "returned"
    /\ calls = 1
    /\ year = 2024
    /\ daily_interpolation
    /\ Len(ET_sparse_stack) = 366 /\ Len(ESI_sparse_stack) = 366 /\ Len(PET_sparse_stack) = 366
    /\ Len(ET_stack) = 366 /\ Len(PET_stack) = 366
    /\ "PET" \in retrieved

\* slot t of a stack belongs to month m: a day of the month in daily mode,
\* the month's own slot in monthly mode
SlotOfMonth(m, t) == IF daily_interpolation THEN InMonth(year, m, t) ELSE t = m - 1

\* C14: a pixel of the ET sparse stack is a number only if it already was one
\* or an ET subset dated in the slot's month has just been retrieved; all the
\* rest is NaN, never 0, and nothing but the date loop writes the stack.
C14_UnknownStaysNaN ==
    /\ [][ DateStep
            => \A t \in 0..(Len(ET_sparse_stack') - 1) : \A p \in Pixels :
                  ~IsNaN(ET_sparse_stack'[t + 1][p])
                     => \/ /\ ET_sparse_stack # <<>>
                            /\ ~IsNaN(ET_sparse_stack[t + 1][p])
                        \/ /\ last'.et = "ok"
                            /\ SlotOfMonth(last'.date[1], t)
                            /\ ~IsNaN(last'.ET_subset[p]) ]_vars
    /\ [][ ~DateStep => ET_sparse_stack' \in {ET_sparse_stack, <<>>} ]_vars
    /\ [](\A t \in 1..Len(ET_sparse_stack) : \A p \in Pixels :
              ET_sparse_stack[t][p] # Num(0))

\* 1 January retrieved in its first pixel only, 1 February failed
C14_Witness ==
    /\ pc = "dates"
    /\ daily_interpolation
    /\ ndates = 2
    /\ last.et = "failed"
    /\ last.date = <<2, 1>>
    /\ ET_sparse_stack # <<>>
    /\ ET_sparse_stack[1] = Partial(Num(2))
    /\ \A t \in 2..Len(ET_sparse_stack) : ET_sparse_stack[t] = Uniform(NaN)

\* the source of a variable for a date is registered and not monthly
NonMonthlySource(variable, md) ==
    LET i == get_available_variable_source_for_date(VARIABLE_TYPES, variable,
                                                    <<year, md[1], md[2]>>)
    IN  i # 0 /\ ~VARIABLE_TYPES[i].monthly

\* the pixels of a stack that hold a number keep it in the stack after the step
KeepsNumbers(before, after) ==
    before # <<>>
       => /\ Len(after) = Len(before)
          /\ \A t \in 1..Len(before) : \A p \in Pixels :
                ~IsNaN(before[t][p]) => after[t][p] = before[t][p]

\* C15: in daily mode an observation of a non-monthly source never changes a
\* pixel that already holds a number, in the ET, the PET and the ESI sparse
\* stack; it only fills pixels that are still NaN.
C15_NumbersNotOverwritten ==
    [][ (DateStep /\ daily_interpolation)
        => /\ NonMonthlySource("ET", last'.date)
                 => KeepsNumbers(ET_sparse_stack, ET_sparse_stack')
           /\ NonMonthlySource("PET", last'.date)
                 => KeepsNumbers(PET_sparse_stack, PET_sparse_stack')
           /\ NonMonthlySource("ESI", last'.date)
                 => KeepsNumbers(ESI_sparse_stack, ESI_sparse_stack') ]_vars

\* 1 January known in pixel 1 only (2), then 15 January (16) on the same slot
C15_Witness ==
    /\ daily_interpolation
    /\ pc = "dates"
    /\ ndates = 2
    /\ last.et = "ok"
    /\ last.date = <<1, 15>>
    /\ NonMonthlySource("ET", last.date)
    /\ last.ET_subset = Uniform(Num(16))
    /\ ET_sparse_stack[1][1] = Num(2)
    /\ \A p \in Pixels \ {1} : ET_sparse_stack[1][p] = Num(16)
    /\ NonMonthlySource("ESI", last.date)
    /\ last.esi = "ok"
    /\ ESI_sparse_stack[1] = Uniform(Rat(1, 2))

\* C16: in monthly mode the ET subset of a date of month m is stored as it is
\* in slot m-1 and no other slot changes, a failed date changes nothing, and
\* the stacks returned are the sparse stacks, not interpolated.
C16_MonthlyModeRaw ==
    /\ [][ (DateStep /\ ~daily_interpolation /\ last'.et = "ok")
            => /\ Len(ET_sparse_stack') = 12
               /\ \A k \in 1..12 :
                     ET_sparse_stack'[k] =
                         IF k = last'.date[1] THEN last'.ET_subset ELSE ETBefore[k] ]_vars
    /\ [][ (DateStep /\ ~daily_interpolation /\ last'.et = "failed")
            => ET_sparse_stack' = ET_sparse_stack ]_vars
    /\ []((pc = "returned" /\ ~daily_interpolation /\ calls = 1)
            => ET_stack = ET_sparse_stack /\ PET_stack = PET_sparse_stack)

\* February and April retrieved, the other months not
C16_Witness ==
    /\ pc = "returned"
    /\ calls = 1
    /\ ~daily_interpolation
    /\ ET_stack[2] = Uniform(Num(3))
    /\ ET_stack[4] = Uniform(Num(5))
    /\ \A k \in 1..12 \ {2, 4} : ET_stack[k] = Uniform(NaN)

\* C17: in whichever months the PPT retrieval raises, the precipitation loop
\* goes on to the next month and then to the date loop without touching what
\* the ET / PET build reads or returns, the call never ends in an exception,
\* and the stacks it returns are those of the call in which every PPT
\* retrieval succeeded: ET 2.0 and PET 4.0 in every slot of the year.
C17_PPTCannotAbort ==
    /\ [][ pc = "ppt"
            => /\ pc' = (IF ppt_month = 12 THEN "dates" ELSE "ppt")
               /\ ppt_month' = (IF ppt_month = 12 THEN 12 ELSE ppt_month + 1)
               /\ UNCHANGED <<Inputs, stack_file, calls, cursor, ndates,
                              ET_sparse_stack, ESI_sparse_stack, PET_sparse_stack,
                              affine, last, retrieved, ET_stack, PET_stack, error>> ]_vars
    /\ [](pc # "raised" /\ error = "")
    /\ [](pc \in {"dates", "returned"} => ppt_month = 12)
    /\ [](pc = "returned"
           => /\ Len(ET_stack) = Len(dates_available)
              /\ Len(PET_stack) = Len(dates_available)
              /\ \A t \in 1..Len(dates_available) :
                    ET_stack[t] = Uniform(Num(2)) /\ PET_stack[t] = Uniform(Num(4)))

\* all twelve PPT retrievals raised, the date loop ran over every day of the
\* year and the stacks were built and returned
C17_Witness ==
    /\ pc = "returned"
    /\ calls = 1
    /\ ppt_scenario = 1..12
    /\ ndates = Len(dates_available)
    /\ ET_stack[1] = Uniform(Num(2))
    /\ PET_stack[Len(dates_available)] = Uniform(Num(4))

\* the day number of a date
Ordinal(date) == toordinal(date[1], date[2], date[3])

\* source j of the registry is a source of the variable whose half-open range
\* [start, end) contains the date
Covers(j, variable, date) ==
    /\ VARIABLE_TYPES[j].variable = variable
    /\ Ordinal(VARIABLE_TYPES[j].start) <= Ordinal(date)
    /\ Ordinal(date) < Ordinal(VARIABLE_TYPES[j].end)

\* C18: the source get_available_variable_source_for_date returns covers the
\* date and no source declared before it does: of two sources of the variable
\* whose ranges both contain the date the first declared is returned,
\* whatever their other attributes.
C18_FirstDeclaredSource ==
    (lookup # <<>> /\ \E j \in 1..Len(VARIABLE_TYPES) : Covers(j, lookup.variable, lookup.date))
        => /\ lookup.source \in 1..Len(VARIABLE_TYPES)
           /\ Covers(lookup.source, lookup.variable, lookup.date)
           /\ \A j \in 1..(lookup.source - 1) : ~Covers(j, lookup.variable, lookup.date)

\* two sources of ET that differ in monthly both cover 20240115, a source of
\* PET is declared before them, and the first of the two is returned
C18_Witness ==
    /\ lookup # <<>>
    /\ lookup.variable = "ET"
    /\ lookup.date = <<2024, 1, 15>>
    /\ Len(VARIABLE_TYPES) = 3
    /\ VARIABLE_TYPES[1].variable = "PET"
    /\ Covers(2, "ET", lookup.date) /\ Covers(3, "ET", lookup.date)
    /\ VARIABLE_TYPES[2].monthly # VARIABLE_TYPES[3].monthly
    /\ VARIABLE_TYPES[2].start # VARIABLE_TYPES[3].start
    /\ lookup.source = 2

\* C19: get_available_variable_source_for_date returns None exactly when no
\* source of the variable has start <= date < end; a source whose start is
\* the date covers it, and a source whose end is the date is not returned.
C19_NoneIffUncovered ==
    lookup # <<>>
        => /\ lookup.source = 0
                <=> \A j \in 1..Len(VARIABLE_TYPES) :
                       \/ VARIABLE_TYPES[j].variable # lookup.variable
                       \/ Ordinal(lookup.date) < Ordinal(VARIABLE_TYPES[j].start)
                       \/ Ordinal(lookup.date) >= Ordinal(VARIABLE_TYPES[j].end)
           /\ \A j \in 1..Len(VARIABLE_TYPES) :
                 /\ (VARIABLE_TYPES[j].variable = lookup.variable
                        /\ VARIABLE_TYPES[j].start = lookup.date)
                       => lookup.source \in 1..j
                 /\ VARIABLE_TYPES[j].end = lookup.date => lookup.source # j

\* the only source of ET ends on the date asked for: None; and a registry
\* with sources of the other variable only
C19_Witness ==
    /\ lookup # <<>>
    /\ lookup.source = 0
    /\ lookup.variable = "ET"
    /\ lookup.date = <<2024, 2, 1>>
    /\ \E j \in 1..Len(VARIABLE_TYPES) :
          VARIABLE_TYPES[j].variable = "ET" /\ VARIABLE_TYPES[j].end = lookup.date
    /\ \E j \in 1..Len(VARIABLE_TYPES) :
          VARIABLE_TYPES[j].variable = "PET" /\ Covers(j, "PET", lookup.date)

\* C20: a date is in the dates_available of S3Source.inventory only if it is
\* a date of the file table and it is the first day of a month or some source
\* that covers it is not monthly.
C20_InventoryDates ==
    S3_table # <<>>
        => \A k \in 1..Len(inventory_result.dates) :
              LET date == inventory_result.dates[k]
              IN  /\ \E i \in 1..Len(S3_table) : S3_table[i] = date
                  /\ \/ date[3] = 1
                     \/ \E j \in 1..Len(VARIABLE_TYPES) :
                           /\ Ordinal(VARIABLE_TYPES[j].start) <= Ordinal(date)
                           /\ Ordinal(date) < Ordinal(VARIABLE_TYPES[j].end)
                           /\ ~VARIABLE_TYPES[j].monthly

\* monthly sources only from 20240101: the firsts of January and February
\* are kept, the 15th and the 31st of January are not
C20_Witness ==
    /\ S3_table = FileTable
    /\ \A j \in 1..Len(VARIABLE_TYPES) : VARIABLE_TYPES[j].monthly
    /\ \E j \in 1..Len(VARIABLE_TYPES) : Covers(j, "ET", <<2024, 1, 31>>)
    /\ inventory_result.dates = << <<2024, 1, 1>>, <<2024, 2, 1>> >>
    /\ inventory_result.years = {2024}

\* C21: the affine transform of a call is the one of the first subset read
\* during the year: once a subset has been read no later step of the call
\* changes it, and it is the one returned and stored in the stack file.
C21_AffineOfFirstSubset ==
    [][ (pc = "dates" /\ affine # <<>>)
        => /\ affine' = affine
           /\ (pc' = "returned" /\ use_stack)
                 => stack_file'.affine = AffineToFile(affine) ]_vars

\* C22: whenever generate_stack raises, process_year catches the exception,
\* runs no monthly aggregation for the year and returns to its caller,
\* whatever the flags; it never ends the process.
C22_YearFailureReturns ==
    /\ [][pc = "raised" => pc' = "return None"]_vars
    /\ [][pc' = "process_monthly" => pc = "returned"]_vars
    /\ [](pc # "sys.exit")

\* C23: whatever the sequence of uses of get_filename, the path a use
\* yields is the path of a file that is on disk while the caller holds it.
C23_YieldedFileExists ==
    yielded # <<>> => temporary_directory[yielded] # "absent"

\* C24: once a call has written a pass count into the cache file of a
\* directory, year and month, every later call for that directory, year and
\* month returns that count, does not search the catalog and leaves the
\* cache file as it is.
C24_CachedCountReused ==
    [][ \A f \in CacheFilenames :
          (/\ cache_files[f].exists /\ cache_files[f].has_count
           /\ count_calls' # count_calls
           /\ CacheFilename(pass_count'.directory, year, pass_count'.month) = f)
          => /\ pass_count'.result = <<cache_files[f].pass_count>>
             /\ catalog_queries' = catalog_queries
             /\ cache_files' = cache_files
             /\ error' = "" ]_vars

\* a count of 0 was written for the default directory and January, a second
\* call for them returned 0 without a search of the catalog
C24_Witness ==
    /\ pc = "catalog"
    /\ count_calls = 2
    /\ catalog_queries = 1
    /\ pass_count = [directory |-> "", month |-> 1, result |-> <<0>>]
    /\ cache_files[CacheFilename("", 2024, 1)] = Written(0)

\* C25: at latitude 0 calculate_hours_of_sunlight returns a value within 0.1
\* of 12.0 hours, on the days of the equinoxes as on every other day and
\* whatever the solar declination of the day.
C25_EquatorTwelveHours ==
    (daylight_hours # <<>> /\ sun_args.tan_latitude = Num(0))
        => /\ ~IsNaN(daylight_hours) /\ ~IsInf(daylight_hours)
           /\ 10 * Abs(daylight_hours.n - 12 * daylight_hours.d) <= daylight_hours.d

\* the March equinox at the equator, the declination just north of 0
C25_Witness ==
    /\ sun_args = [doy |-> 80, tan_latitude |-> Num(0), tan_solar_dec |-> Rat(1, 100)]
    /\ daylight_hours = Num(12)

\* C26: once a PET stack has been allocated, no later date writes an ESI
\* observation into the ESI stack (the stack is at most allocated, all NaN),
\* a later date whose PET retrieval failed or had no source leaves the PET
\* sparse stack as it was, and the final PET stack is the PET sparse stack,
\* not ET / ESI.
C26_FallbackPerYear ==
    /\ [][ (DateStep /\ PET_sparse_stack # <<>>)
            => /\ \/ ESI_sparse_stack' = ESI_sparse_stack
                  \/ /\ ESI_sparse_stack = <<>>
                     /\ \A t \in 1..Len(ESI_sparse_stack') :
                           \A p \in Pixels : IsNaN(ESI_sparse_stack'[t][p])
               /\ last'.pet \in {"failed", "nosource", "skipped"}
                     => PET_sparse_stack' = PET_sparse_stack ]_vars
    /\ [][ (pc = "dates" /\ pc' = "returned" /\ PET_sparse_stack # <<>>)
            => PET_sparse_stack' = PET_sparse_stack ]_vars

\* PET was read on 1 January; on 15 January the PET retrieval failed and ESI
\* was retrieved: the ESI stack is all NaN and so is the PET of 15 January
C26_Witness ==
    /\ pc = "dates"
    /\ daily_interpolation
    /\ year = 2023
    /\ VARIABLE_TYPES = RegistryTransition
    /\ ndates = 2
    /\ "PET" \in retrieved /\ "ESI" \in retrieved
    /\ last.date = <<1, 15>>
    /\ last.pet = "failed"
    /\ last.esi = "ok"
    /\ ESI_sparse_stack # <<>>
    /\ \A t \in 1..Len(ESI_sparse_stack) : ESI_sparse_stack[t] = Uniform(NaN)
    /\ PET_sparse_stack # <<>>
    /\ PET_sparse_stack[1] = Uniform(Num(102))
    /\ PET_sparse_stack[15] = Uniform(NaN)

\* C27: with use_stack a call that completes writes what it returns into the
\* stack file, nothing else changes the file, and a call that finds the file
\* returns the ET, the PET and the affine of the file without a request for
\* any subset; without use_stack the file is neither read nor written.
C27_StackFileReused ==
    /\ [][ (pc = "dates" /\ pc' = "returned" /\ use_stack)
            => stack_file' = [ET |-> ET_stack', PET |-> PET_stack',
                              affine |-> AffineToFile(affine')] ]_vars
    /\ [][ stack_file' # stack_file
            => (use_stack /\ pc = "dates" /\ pc' = "returned") ]_vars
    /\ [][ (pc = "start" /\ pc' \notin {"start", "raised"})
            => IF use_stack /\ stack_file # <<>>
               THEN /\ pc' = "returned"
                    /\ ET_stack' = stack_file.ET
                    /\ PET_stack' = stack_file.PET
                    /\ AffineToFile(affine') = stack_file.affine
                    /\ retrieved' = {} /\ last' = NoLog
                    /\ UNCHANGED <<ppt_month, cursor, ndates>>
               ELSE pc' = "ppt" ]_vars
    /\ [](calls = 2 => /\ pc \notin {"ppt", "dates"}
                       /\ retrieved = {} /\ last = NoLog /\ ndates = 0)

\* a second call returned the stacks and the affine the first call generated
\* from the subsets of 1 January and 1 February
C27_Witness ==
    /\ calls = 2
    /\ pc = "returned"
    /\ use_stack
    /\ retrieved = {}
    /\ ET_stack = stack_file.ET /\ PET_stack = stack_file.PET
    /\ affine = SubsetAffine("ESI", <<2, 1>>)
    /\ stack_file.affine = <<30, 0, 3000, 0, -30, 201>>

\* C28: the index ranges [start, end) of the months of a year start at 0,
\* each begins where the one before ends (so they are contiguous and
\* pairwise disjoint), each has as many indices as its month has days, which
\* is get_days_in_month, and the twelfth ends at get_days_in_year.
C28_MonthSlicesPartition ==
    /\ \A m \in 1..Len(month_slices) :
          /\ month_slices[m][1] = (IF m = 1 THEN 0 ELSE month_slices[m - 1][2])
          /\ month_slices[m][2] - month_slices[m][1] = MonthLen(year, m)
          /\ get_days_in_month(year, m) = MonthLen(year, m)
          /\ \A k \in 1..(m - 1) :
                {t \in 0..366 : month_slices[k][1] <= t /\ t < month_slices[k][2]}
                \cap {t \in 0..366 : month_slices[m][1] <= t /\ t < month_slices[m][2]} = {}
    /\ Len(month_slices) = 12 => month_slices[12][2] = get_days_in_year(year)

\* the twelve slices of the leap year 2024: February has 29 indices and the
\* year ends at 366
C28_Witness ==
    /\ year = 2024
    /\ Len(month_slices) = 12
    /\ month_slices[2] = <<31, 60>>
    /\ month_slices[12] = <<335, 366>>

\* C29: every time index generate_stack writes at lies inside the stack it
\* writes to: the slot of the ET observation (day_of_year of line 302 in daily
\* mode, month - 1 in monthly mode), the slot get_day_of_year of a PET
\* observation of a source that is not monthly, and the slot day_of_year of
\* an ESI observation written at lines 320-322.
C29_WriteIndicesInStack ==
    last.et = "ok" =>
        LET md         == last.date
            pet_source == get_available_variable_source_for_date(
                              VARIABLE_TYPES, "PET", <<year, md[1], md[2]>>)
        IN  /\ IndexInStack(ET_sparse_stack,
                            IF daily_interpolation THEN ETSlot(year, md[1], md[2])
                            ELSE md[1] - 1)
            /\ (last.pet \in {"ok", "IndexError"} /\ ~SourceMonthly(VARIABLE_TYPES, pet_source))
                   => IndexInStack(PET_sparse_stack, get_day_of_year(year, md[1], md[2]))
            /\ (last.esi = "ok" /\ last.pet \in {"nosource", "failed"} /\ PET_sparse_stack = <<>>)
                   => IndexInStack(ESI_sparse_stack, get_one_month_slice(year, md[1])[1])

\* the known (non-NaN) day positions of pixel i of a stack
Known(stack, i) == {t \in 1..Len(stack) : ~IsNaN(stack[t][i])}

PixelsOf(stack) == 1..Len(stack[1])

\* C6: when no PET stack was created during the year, the PET stack is
\* ET_stack / ESI_stack slot by slot; with ET 2.0 and ESI 0.5 on every day of
\* the year the PET stack returned is 4.0 in every slot of the year.
C6_DerivedPET ==
    /\ [][ (pc = "dates" /\ pc' = "returned" /\ PET_sparse_stack = <<>>)
           => /\ Len(PET_sparse_stack') = Len(ET_sparse_stack)
              /\ \A t \in 1..Len(ET_sparse_stack) : \A p \in Pixels :
                    PET_sparse_stack'[t][p] = Div(ET_sparse_stack[t][p], ESI_sparse_stack[t][p]) ]_vars
    /\ [](pc = "returned"
           => /\ Len(PET_stack) = (IF IsLeap(year) THEN 366 ELSE 365)
              /\ \A t \in 1..Len(PET_stack) : \A p \in Pixels : PET_stack[t][p] = Num(4))

C6_Witness ==
    /\ pc = "returned"
    /\ calls = 1
    /\ year = 2023
    /\ ndates = 365
    /\ "PET" \notin retrieved
    /\ PET_stack[365] = Uniform(Num(4))
    /\ ET_stack[365] = Uniform(Num(2))

\* C7: every pixel column with at least 3 known samples has no NaN in the
\* output of interpolate_stack, and every column with fewer is all NaN.
C7_TotalPerColumn ==
    \A k \in 1..Len(iout) :
        /\ Len(iout[k]) = Len(istack)
        /\ \A i \in PixelsOf(istack) :
              IF Cardinality(Known(istack, i)) >= 3
              THEN \A t \in 1..Len(istack) : ~IsNaN(iout[k][t][i])
              ELSE \A t \in 1..Len(istack) : IsNaN(iout[k][t][i])

C7_Witness ==
    /\ Len(iout) >= 1
    /\ Len(istack) = MaxLen
    /\ \E i \in PixelsOf(istack) :
          /\ Cardinality(Known(istack, i)) = 3
          /\ \A t \in 1..Len(istack) : ~IsNaN(iout[1][t][i])
    /\ \E i \in PixelsOf(istack) :
          /\ Cardinality(Known(istack, i)) = 2
          /\ \A t \in 1..Len(istack) : IsNaN(iout[1][t][i])

\* the known position nearest to t, the earlier one of two equally distant
Nearest(known, t) ==
    CHOOSE k \in known :
        \A j \in known : Abs(k - t) < Abs(j - t) \/ (Abs(k - t) = Abs(j - t) /\ k <= j)

\* C8: in a column with at least 3 known samples every day takes the value of
\* the nearest known sample, the earlier one on a tie, also before the first
\* and after the last known sample; with 5.0, 8.0, 3.0 on day 1, 100, 200,
\* day 50 is 5.0, day 150 is 8.0 and day 365 is 3.0.
C8_NearestEarlierOnTie ==
    \A k \in 1..Len(iout) :
        /\ \A i \in PixelsOf(istack) :
              Cardinality(Known(istack, i)) >= 3
                 => \A t \in 1..Len(istack) :
                       iout[k][t][i] = istack[Nearest(Known(istack, i), t)][i]
        /\ istack = ThreeObservations
              => /\ iout[k][50] = Uniform(Num(5))
                 /\ iout[k][150] = Uniform(Num(8))
                 /\ iout[k][365] = Uniform(Num(3))

C8_Witness ==
    /\ istack = ThreeObservations
    /\ Len(iout) >= 1
    /\ iout[1][150] = Uniform(Num(8))
    /\ Abs(150 - 100) = Abs(200 - 150)

C30_NoInventedValues ==
    \A k \in 1..Len(iout) :
        \A i \in PixelsOf(istack) :
            Cardinality(Known(istack, i)) >= 3
               => /\ \A t \in Known(istack, i) : iout[k][t][i] = istack[t][i]
                  /\ \A t \in 1..Len(istack) :
                        \E s \in Known(istack, i) : iout[k][t][i] = istack[s][i]

\* a column with three known days of different values and an unknown day
\* half way between two of them, filled with the value of the earlier one
C30_Witness ==
    /\ Len(iout) >= 1
    /\ \E i \in PixelsOf(istack) :
          /\ Cardinality(Known(istack, i)) >= 3
          /\ \E t \in 2..(Len(istack) - 1) :
                /\ IsNaN(istack[t][i])
                /\ {t - 1, t + 1} \subseteq Known(istack, i)
                /\ istack[t - 1][i] # istack[t + 1][i]
                /\ iout[1][t][i] = istack[t - 1][i]
                /\ iout[1][t - 1][i] = istack[t - 1][i]
                /\ iout[1][t + 1][i] = istack[t + 1][i]

====
